---- MODULE Spec2Model ----
(***************************************************************************)
(* Model of safedelete/query.py: SafeDeleteQuery, the query object that    *)
(* injects the soft-delete visibility predicate before a query is compiled *)
(* or sliced.                                                              *)
(*                                                                         *)
(* The state is the collection of live SafeDeleteQuery instances.  Every   *)
(* instance carries the four _safedelete_* attributes of the class, plus   *)
(* the two pieces of the host sql.Query the class reads or writes: its     *)
(* condition set (`where`, written by add_q) and whether limits are set    *)
(* (`is_sliced`, read by can_filter, written by the host's set_limits).    *)
(***************************************************************************)
EXTENDS Naturals, Sequences, FiniteSets, TLC

VARIABLES
    queries,    \* instance id -> the instance's attributes; DOMAIN = live instances
    last,       \* history: the operation performed by the last step
    trail       \* history: per instance, how far it is along
                \*   visible pass -> force override -> second apply-filter

vars == <<queries, last, trail>>

----------------------------------------------------------------------------
(* Bounds *)

\* Number of query instances (originals and clones) alive in the general model.
MaxQueries == 3

\* Number of (INVISIBLE, VISIBLE_BY_FIELD) pairs in the side-by-side model.
MaxPairs == 3

----------------------------------------------------------------------------
(* Configuration values imported from .config *)

DELETED_INVISIBLE == "DELETED_INVISIBLE"
DELETED_VISIBLE_BY_FIELD == "DELETED_VISIBLE_BY_FIELD"
DELETED_VISIBLE == "DELETED_VISIBLE"
DELETED_ONLY_VISIBLE == "DELETED_ONLY_VISIBLE"
FIELD_NAME == "FIELD_NAME"

\* Python's None.
None == "None"

VisibilityModes ==
    {DELETED_INVISIBLE, DELETED_VISIBLE_BY_FIELD, DELETED_VISIBLE, DELETED_ONLY_VISIBLE}

\* The name a manager designates as _safedelete_visibility_field.
VisibilityFields == {"force_visibility"}

\* The keyword arguments of a filter call, as the set of their keys: none, a
\* field of the model, the visibility field, or both.
KwargsSets == SUBSET {"force_visibility", "name"}

\* An Optional[int] argument: <<>> for None, <<n>> for the integer n.
NoInt == <<>>
SomeInt(n) == <<n>>

\* Arguments (low, high) of set_limits: no limits, qs[0:], qs[:1], qs[1:],
\* qs[1:2].
LimitArgs ==
    { <<NoInt, NoInt>>, <<SomeInt(0), NoInt>>, <<NoInt, SomeInt(1)>>,
      <<SomeInt(1), NoInt>>, <<SomeInt(1), SomeInt(1)>> }

----------------------------------------------------------------------------
(* The class *)

\* Q(**{FIELD_NAME + "__isnull": isnull})
IsNullQ(isnull) == [field |-> FIELD_NAME, isnull |-> isnull]

\* A freshly constructed instance: the class-level defaults of
\* _safedelete_filter_applied and _safedelete_force_visibility, the visibility
\* and visibility field given by the caller, an empty unsliced host query.
NewQuery(visibility, visibility_field) ==
    [ _safedelete_filter_applied   |-> FALSE,
      _safedelete_force_visibility |-> None,
      _safedelete_visibility       |-> visibility,
      _safedelete_visibility_field |-> visibility_field,
      where                        |-> <<>>,
      is_sliced                    |-> FALSE ]

\* Host: sql.Query.can_filter(), false once limits are set.
can_filter(Q, self) == ~Q[self].is_sliced

\* Host: sql.Query.add_q(q_object), in place on self.
add_q(Q, self, q_object) == [Q EXCEPT ![self].where = Append(@, q_object)]

\* EffectiveVisibility without the force override.
EffectiveVisibility_IgnoresForce(q) == q._safedelete_visibility

\* The local `visibility` of _filter_visibility: the force override when one
\* is set, the configured visibility otherwise.
EffectiveVisibility(q) ==
    IF q._safedelete_force_visibility # None
    THEN q._safedelete_force_visibility
    ELSE q._safedelete_visibility

\* IsNullValue with the membership test negated.
IsNullValue_Inverted(visibility) ==
    visibility \notin {DELETED_INVISIBLE, DELETED_VISIBLE_BY_FIELD}

\* IsNullValue with the membership test reduced to DELETED_INVISIBLE.
IsNullValue_OnlyInvisible(visibility) == visibility = DELETED_INVISIBLE

\* The value of FIELD_NAME + "__isnull" in the injected Q object.
IsNullValue(visibility) ==
    visibility \in {DELETED_INVISIBLE, DELETED_VISIBLE_BY_FIELD}

\* FilteringModes with DELETED_VISIBLE listed among the filtered modes.
FilteringModes_WithVisible ==
    {DELETED_INVISIBLE, DELETED_VISIBLE_BY_FIELD, DELETED_VISIBLE, DELETED_ONLY_VISIBLE}

\* The modes for which _filter_visibility adds the predicate.
FilteringModes ==
    {DELETED_INVISIBLE, DELETED_VISIBLE_BY_FIELD, DELETED_ONLY_VISIBLE}

\* The guard of the early return of _filter_visibility.
FilterSkipped(Q, self) ==
    ~can_filter(Q, self) \/ Q[self]._safedelete_filter_applied

\* _filter_visibility with _safedelete_filter_applied set in the VISIBLE
\* branch too.
_filter_visibility_FlagAlwaysSet(Q, self) ==
    IF FilterSkipped(Q, self)
    THEN Q
    ELSE LET visibility == EffectiveVisibility(Q[self])
         IN  IF visibility \in FilteringModes
             THEN [add_q(Q, self, IsNullQ(IsNullValue(visibility)))
                      EXCEPT ![self]._safedelete_filter_applied = TRUE]
             ELSE [Q EXCEPT ![self]._safedelete_filter_applied = TRUE]

\* _filter_visibility without the assignment of _safedelete_filter_applied.
_filter_visibility_FlagNotSet(Q, self) ==
    IF FilterSkipped(Q, self)
    THEN Q
    ELSE LET visibility == EffectiveVisibility(Q[self])
         IN  IF visibility \in FilteringModes
             THEN add_q(Q, self, IsNullQ(IsNullValue(visibility)))
             ELSE Q

_filter_visibility(Q, self) ==
    IF FilterSkipped(Q, self)
    THEN Q
    ELSE LET visibility == EffectiveVisibility(Q[self])
         IN  IF visibility \in FilteringModes
             THEN [add_q(Q, self, IsNullQ(IsNullValue(visibility)))
                      EXCEPT ![self]._safedelete_filter_applied = TRUE]
             ELSE Q

\* The condition of check_field_filter.
FieldFilterTriggered(Q, self, kwargs) ==
    /\ Q[self]._safedelete_visibility = DELETED_VISIBLE_BY_FIELD
    /\ Q[self]._safedelete_visibility_field \in kwargs

\* check_field_filter assigning the override on the class, so that every
\* instance reads it.
check_field_filter_OnClass(Q, self, kwargs) ==
    IF FieldFilterTriggered(Q, self, kwargs)
    THEN [q \in DOMAIN Q |->
            [Q[q] EXCEPT !._safedelete_force_visibility = DELETED_VISIBLE]]
    ELSE Q

\* check_field_filter without the test of _safedelete_visibility.
check_field_filter_AnyMode(Q, self, kwargs) ==
    IF Q[self]._safedelete_visibility_field \in kwargs
    THEN [Q EXCEPT ![self]._safedelete_force_visibility = DELETED_VISIBLE]
    ELSE Q

\* check_field_filter clearing the override when the key is absent.
check_field_filter_Resets(Q, self, kwargs) ==
    IF Q[self]._safedelete_visibility = DELETED_VISIBLE_BY_FIELD
    THEN [Q EXCEPT ![self]._safedelete_force_visibility =
            IF Q[self]._safedelete_visibility_field \in kwargs
            THEN DELETED_VISIBLE ELSE None]
    ELSE Q

check_field_filter(Q, self, kwargs) ==
    IF FieldFilterTriggered(Q, self, kwargs)
    THEN [Q EXCEPT ![self]._safedelete_force_visibility = DELETED_VISIBLE]
    ELSE Q

\* Host: sql.Query.clone(), a new object with a copy of the condition set and
\* of the limits; the _safedelete_* attributes are the class defaults until
\* SafeDeleteQuery.clone assigns them.
host_clone(Q, self) ==
    [ _safedelete_filter_applied   |-> FALSE,
      _safedelete_force_visibility |-> None,
      _safedelete_visibility       |-> None,
      _safedelete_visibility_field |-> None,
      where                        |-> Q[self].where,
      is_sliced                    |-> Q[self].is_sliced ]

\* clone() without the copy of _safedelete_force_visibility.
clone_ForceNotCopied(Q, self, new) ==
    LET c == host_clone(Q, self)
    IN  Q @@ (new :>
          [c EXCEPT
             !._safedelete_visibility       = Q[self]._safedelete_visibility,
             !._safedelete_visibility_field = Q[self]._safedelete_visibility_field,
             !._safedelete_filter_applied   = Q[self]._safedelete_filter_applied])

\* clone() without the copy of _safedelete_filter_applied.
clone_FilterAppliedNotCopied(Q, self, new) ==
    LET c == host_clone(Q, self)
    IN  Q @@ (new :>
          [c EXCEPT
             !._safedelete_visibility       = Q[self]._safedelete_visibility,
             !._safedelete_visibility_field = Q[self]._safedelete_visibility_field,
             !._safedelete_force_visibility = Q[self]._safedelete_force_visibility])

\* clone(): the new instance is stored under the fresh id `new`.  hasattr(self,
\* '_safedelete_force_visibility') is always true, the class defines the
\* attribute, so the force override is always copied.
clone(Q, self, new) ==
    LET c == host_clone(Q, self)
    IN  Q @@ (new :>
          [c EXCEPT
             !._safedelete_visibility       = Q[self]._safedelete_visibility,
             !._safedelete_visibility_field = Q[self]._safedelete_visibility_field,
             !._safedelete_filter_applied   = Q[self]._safedelete_filter_applied,
             !._safedelete_force_visibility = Q[self]._safedelete_force_visibility])

\* Host: sql.Query.get_compiler(), reads the query and changes nothing in it.
host_get_compiler(Q, self) == Q

get_compiler(Q, self) == host_get_compiler(_filter_visibility(Q, self), self)

\* Host: sql.Query.set_limits(low, high): the query is sliced once a high mark
\* is given or the low mark moves off 0, and stays sliced.
host_set_limits(Q, self, low, high) ==
    [Q EXCEPT ![self].is_sliced =
        @ \/ high # NoInt \/ (low # NoInt /\ low # SomeInt(0))]

\* set_limits returning with _filter_visibility's early return, before the
\* host's set_limits.
set_limits_SkipsHost(Q, self, low, high) ==
    IF FilterSkipped(Q, self)
    THEN Q
    ELSE host_set_limits(_filter_visibility(Q, self), self, low, high)

\* set_limits with the host's set_limits run before the filter.
set_limits_LimitsFirst(Q, self, low, high) ==
    _filter_visibility(host_set_limits(Q, self, low, high), self)

set_limits(Q, self, low, high) ==
    host_set_limits(_filter_visibility(Q, self), self, low, high)

----------------------------------------------------------------------------
(* History *)

\* The record of one call: the method, the instance it was called on, whether
\* the instance's visibility field was a key of the kwargs (check_field_filter),
\* the id of the instance returned (clone), and whether the call added a
\* predicate to the condition set of the instance it was called on.
Op(op, self, keyed, new, injected) ==
    [op |-> op, self |-> self, keyed |-> keyed, new |-> new,
     injected |-> injected]

\* Whether the step from Q to R added a predicate to self's condition set.
Injected(Q, R, self) == R[self].where # Q[self].where

\* Whether a call of _filter_visibility on self gets past the early return and
\* finds the effective mode VISIBLE (it then injects nothing and leaves
\* filter_applied false).
VisiblePass(Q, self) ==
    /\ ~FilterSkipped(Q, self)
    /\ EffectiveVisibility(Q[self]) = DELETED_VISIBLE

\* trail after a call of _filter_visibility on self.
TrailAfterFilter(Q, self, t) ==
    IF t = "overridden" \/ t = "refiltered" THEN "refiltered"
    ELSE IF VisiblePass(Q, self) THEN "passed"
    ELSE t

\* trail after a call of check_field_filter on self that sets the override.
TrailAfterOverride(Q, self, kwargs, t) ==
    IF t = "passed" /\ FieldFilterTriggered(Q, self, kwargs)
    THEN "overridden"
    ELSE t

----------------------------------------------------------------------------
(* The general model: one original query and its clones *)

Init ==
    /\ \E visibility \in VisibilityModes, visibility_field \in VisibilityFields :
           queries = (1 :> NewQuery(visibility, visibility_field))
    /\ last = Op("init", 0, FALSE, 0, FALSE)
    /\ trail = (1 :> "none")

CheckFieldFilter(self, kwargs) ==
    /\ queries' = check_field_filter(queries, self, kwargs)
    /\ last' = Op("check_field_filter", self,
                queries[self]._safedelete_visibility_field \in kwargs, 0,
                Injected(queries, queries', self))
    /\ trail' = [trail EXCEPT ![self] = TrailAfterOverride(queries, self, kwargs, @)]

Clone(self) ==
    /\ Cardinality(DOMAIN queries) < MaxQueries
    /\ LET new == Cardinality(DOMAIN queries) + 1
       IN  /\ queries' = clone(queries, self, new)
           /\ last' = Op("clone", self, FALSE, new,
                        Injected(queries, queries', self))
           /\ trail' = trail @@ (new :> "none")

GetCompiler(self) ==
    /\ queries' = get_compiler(queries, self)
    /\ last' = Op("get_compiler", self, FALSE, 0,
                Injected(queries, queries', self))
    /\ trail' = [trail EXCEPT ![self] = TrailAfterFilter(queries, self, @)]

SetLimits(self, low, high) ==
    /\ queries' = set_limits(queries, self, low, high)
    /\ last' = Op("set_limits", self, FALSE, 0,
                Injected(queries, queries', self))
    /\ trail' = [trail EXCEPT ![self] = TrailAfterFilter(queries, self, @)]

Next ==
    \/ \E self \in DOMAIN queries, kwargs \in KwargsSets :
           CheckFieldFilter(self, kwargs)
    \/ \E self \in DOMAIN queries : Clone(self)
    \/ \E self \in DOMAIN queries : GetCompiler(self)
    \/ \E self \in DOMAIN queries, limits \in LimitArgs :
           SetLimits(self, limits[1], limits[2])

Spec == Init /\ [][Next]_vars

----------------------------------------------------------------------------
(* The side-by-side model: an INVISIBLE query and a VISIBLE_BY_FIELD query *)
(* given the same calls of clone, get_compiler and set_limits.  Pair p is  *)
(* the INVISIBLE instance 2p-1 and the VISIBLE_BY_FIELD instance 2p.       *)
(* check_field_filter is called on both, on the VISIBLE_BY_FIELD instance  *)
(* only with kwargs that lack its visibility field.                        *)

Invisible(p) == 2 * p - 1
ByField(p) == 2 * p
Pairs == {p \in 1..MaxPairs : ByField(p) \in DOMAIN queries}

InitPair ==
    /\ \E visibility_field \in VisibilityFields :
           queries = (Invisible(1) :> NewQuery(DELETED_INVISIBLE, visibility_field))
                  @@ (ByField(1) :> NewQuery(DELETED_VISIBLE_BY_FIELD, visibility_field))
    /\ last = Op("init", 0, FALSE, 0, FALSE)
    /\ trail = (Invisible(1) :> "none") @@ (ByField(1) :> "none")

PairCheckFieldFilter(p, kwargsInvisible, kwargs) ==
    /\ queries[ByField(p)]._safedelete_visibility_field \notin kwargs
    /\ queries' = check_field_filter(
                      check_field_filter(queries, Invisible(p), kwargsInvisible),
                      ByField(p), kwargs)
    /\ last' = Op("check_field_filter", ByField(p), FALSE, 0,
                  Injected(queries, queries', ByField(p)))
    /\ UNCHANGED trail

PairClone(p) ==
    /\ Cardinality(Pairs) < MaxPairs
    /\ LET n == Cardinality(Pairs) + 1
       IN  /\ queries' = clone(clone(queries, Invisible(p), Invisible(n)),
                               ByField(p), ByField(n))
           /\ last' = Op("clone", ByField(p), FALSE, ByField(n),
                         Injected(queries, queries', ByField(p)))
           /\ trail' = trail @@ (Invisible(n) :> "none") @@ (ByField(n) :> "none")

PairGetCompiler(p) ==
    /\ queries' = get_compiler(get_compiler(queries, Invisible(p)), ByField(p))
    /\ last' = Op("get_compiler", ByField(p), FALSE, 0,
                  Injected(queries, queries', ByField(p)))
    /\ UNCHANGED trail

PairSetLimits(p, low, high) ==
    /\ queries' = set_limits(set_limits(queries, Invisible(p), low, high),
                             ByField(p), low, high)
    /\ last' = Op("set_limits", ByField(p), FALSE, 0,
                  Injected(queries, queries', ByField(p)))
    /\ UNCHANGED trail

NextPair ==
    \/ \E p \in Pairs, kwargsInvisible \in KwargsSets, kwargs \in KwargsSets :
           PairCheckFieldFilter(p, kwargsInvisible, kwargs)
    \/ \E p \in Pairs : PairClone(p)
    \/ \E p \in Pairs : PairGetCompiler(p)
    \/ \E p \in Pairs, limits \in LimitArgs :
           PairSetLimits(p, limits[1], limits[2])

SpecPair == InitPair /\ [][NextPair]_vars

----------------------------------------------------------------------------
(* Vocabulary of the properties *)

\* The methods that run _filter_visibility.
FilterCalls == {"get_compiler", "set_limits"}

\* The positions of the deleted-marker predicates in q's condition set.
MarkerPredicates(q) == {i \in DOMAIN q.where : q.where[i].field = FIELD_NAME}

\* The step just taken is a call of get_compiler or set_limits on self.
FilterCallOn(self) == last'.op \in FilterCalls /\ last'.self = self

----------------------------------------------------------------------------
(* C1: for an instance whose mode is INVISIBLE or ONLY_VISIBLE, that is     *)
(* still filterable, has filter_applied false and no force override, one   *)
(* call of get_compiler or set_limits appends exactly one deleted-marker   *)
(* predicate to that instance's own condition set ('is null' for           *)
(* INVISIBLE, 'is not null' for ONLY_VISIBLE), sets filter_applied, and    *)
(* leaves every other instance's condition set alone.                      *)
C1_Precondition(self) ==
    /\ queries[self]._safedelete_visibility \in {DELETED_INVISIBLE, DELETED_ONLY_VISIBLE}
    /\ can_filter(queries, self)
    /\ ~queries[self]._safedelete_filter_applied
    /\ queries[self]._safedelete_force_visibility = None

C1_InjectsOnePredicate ==
    [][\A self \in DOMAIN queries :
          (C1_Precondition(self) /\ FilterCallOn(self)) =>
             /\ queries'[self].where =
                   Append(queries[self].where,
                          [field |-> FIELD_NAME,
                           isnull |-> (queries[self]._safedelete_visibility
                                          = DELETED_INVISIBLE)])
             /\ Cardinality(MarkerPredicates(queries'[self])) = 1
             /\ queries'[self]._safedelete_filter_applied
             /\ \A other \in DOMAIN queries \ {self} :
                   queries'[other].where = queries[other].where]_vars

\* An ONLY_VISIBLE instance that set_limits has just given its predicate.
C1_Witness ==
    /\ last.op = "set_limits"
    /\ last.injected
    /\ queries[last.self]._safedelete_visibility = DELETED_ONLY_VISIBLE
    /\ queries[last.self].where = <<[field |-> FIELD_NAME, isnull |-> FALSE]>>
    /\ queries[last.self]._safedelete_filter_applied

----------------------------------------------------------------------------
(* C2: an instance constructed with mode VISIBLE, and every clone of it,   *)
(* never holds a deleted-marker predicate, whatever calls of               *)
(* check_field_filter, clone, get_compiler and set_limits are made.        *)
C2_VisibleNeverFiltered ==
    \A self \in DOMAIN queries :
        queries[self]._safedelete_visibility = DELETED_VISIBLE =>
            MarkerPredicates(queries[self]) = {}

\* A VISIBLE query with a clone, both compiled or sliced, the clone last.
C2_Witness ==
    /\ last.op \in FilterCalls
    /\ last.self > 1
    /\ queries[last.self]._safedelete_visibility = DELETED_VISIBLE
    /\ queries[last.self].is_sliced
    /\ trail[1] = "passed"

----------------------------------------------------------------------------
(* C3: a VISIBLE_BY_FIELD query that is never passed its visibility field  *)
(* (check_field_filter is called only with kwargs lacking the key) and an  *)
(* INVISIBLE query, given the same calls of clone, get_compiler and        *)
(* set_limits, hold the same condition set and the same filter_applied in  *)
(* every state; once compiled or limited the condition set of both is the  *)
(* single predicate 'deleted-marker is null'.                              *)
C3_ByFieldLikeInvisible ==
    /\ \A p \in Pairs :
          /\ queries[ByField(p)].where = queries[Invisible(p)].where
          /\ queries[ByField(p)]._safedelete_filter_applied
                = queries[Invisible(p)]._safedelete_filter_applied
    /\ last.op \in FilterCalls =>
          /\ queries[last.self].where = <<[field |-> FIELD_NAME, isnull |-> TRUE]>>
          /\ queries[last.self - 1].where = <<[field |-> FIELD_NAME, isnull |-> TRUE]>>
          /\ queries[last.self]._safedelete_filter_applied
          /\ queries[last.self - 1]._safedelete_filter_applied

\* The cloned pair has just been given its predicate by get_compiler, after
\* the original pair was sliced.
C3_Witness ==
    /\ last.op = "get_compiler"
    /\ last.injected
    /\ last.self = ByField(2)
    /\ queries[ByField(2)]._safedelete_visibility = DELETED_VISIBLE_BY_FIELD
    /\ queries[Invisible(2)]._safedelete_visibility = DELETED_INVISIBLE
    /\ queries[ByField(2)].where = <<[field |-> FIELD_NAME, isnull |-> TRUE]>>
    /\ queries[ByField(1)].is_sliced

----------------------------------------------------------------------------
(* C4: for a VISIBLE_BY_FIELD query, once check_field_filter has been      *)
(* called with kwargs containing the visibility field, every later compile *)
(* (get_compiler or set_limits) of that instance, or of a clone taken      *)
(* after the trigger, is done with a condition set that holds no           *)
(* deleted-marker predicate, whatever was done to the instance before the  *)
(* trigger.  An instance carries the override exactly when it was          *)
(* triggered itself or cloned from a triggered instance.                   *)
C4_TriggeredCompilesUnfiltered ==
    ( /\ last.op \in FilterCalls
      /\ queries[last.self]._safedelete_visibility = DELETED_VISIBLE_BY_FIELD
      /\ queries[last.self]._safedelete_force_visibility = DELETED_VISIBLE )
    => MarkerPredicates(queries[last.self]) = {}

----------------------------------------------------------------------------
(* C5: every instance, original or clone, holds at most one deleted-marker *)
(* predicate in every reachable state (a clone's inherited predicates      *)
(* counted), and a call of get_compiler or set_limits on an instance with  *)
(* filter_applied true adds nothing to its condition set.                  *)
C5_AtMostOnePredicate ==
    /\ [](\A self \in DOMAIN queries :
             Cardinality(MarkerPredicates(queries[self])) <= 1)
    /\ [][\A self \in DOMAIN queries :
             (queries[self]._safedelete_filter_applied /\ FilterCallOn(self)) =>
                 queries'[self].where = queries[self].where]_vars

\* A still filterable clone that inherited its predicate and was compiled
\* again without gaining a second one.
C5_Witness ==
    /\ last.op \in FilterCalls
    /\ ~last.injected
    /\ last.self > 1
    /\ can_filter(queries, last.self)
    /\ queries[last.self]._safedelete_filter_applied
    /\ Cardinality(MarkerPredicates(queries[last.self])) = 1

----------------------------------------------------------------------------
(* C6: no step changes an instance's filter_applied from true to false,    *)
(* and the instance returned by clone starts with the filter_applied its   *)
(* parent has at the moment of cloning.                                    *)
C6_FilterAppliedMonotone ==
    [][/\ \A self \in DOMAIN queries :
             queries[self]._safedelete_filter_applied =>
                 queries'[self]._safedelete_filter_applied
       /\ last'.op = "clone" =>
             queries'[last'.new]._safedelete_filter_applied
               = queries[last'.self]._safedelete_filter_applied]_vars

\* A clone just taken from an already filtered, unsliced query.
C6_Witness ==
    /\ last.op = "clone"
    /\ queries[last.self]._safedelete_filter_applied
    /\ queries[last.new]._safedelete_filter_applied
    /\ ~queries[last.new].is_sliced

----------------------------------------------------------------------------
(* C7: a call on one instance leaves the visibility, visibility_field,     *)
(* force_visibility, filter_applied and effective mode of every other      *)
(* instance unchanged; in particular a call on a clone does not touch its  *)
(* parent, a call on the parent does not touch its clones, and clone()     *)
(* itself changes nothing in the instances that already exist.             *)
C7_EffectiveMode(q) ==
    IF q._safedelete_force_visibility # None
    THEN q._safedelete_force_visibility
    ELSE q._safedelete_visibility

C7_SameVisibilityState(q, r) ==
    /\ r._safedelete_visibility = q._safedelete_visibility
    /\ r._safedelete_visibility_field = q._safedelete_visibility_field
    /\ r._safedelete_force_visibility = q._safedelete_force_visibility
    /\ r._safedelete_filter_applied = q._safedelete_filter_applied
    /\ C7_EffectiveMode(r) = C7_EffectiveMode(q)

C7_CloneIndependence ==
    [][\A other \in DOMAIN queries :
          (other # last'.self \/ last'.op = "clone") =>
              C7_SameVisibilityState(queries[other], queries'[other])]_vars

\* A parent that was compiled (filtered) while its clone was triggered and
\* compiled unfiltered: each was changed, neither followed the other.
C7_Witness ==
    /\ Cardinality(DOMAIN queries) >= 2
    /\ queries[1]._safedelete_force_visibility = None
    /\ queries[1]._safedelete_filter_applied
    /\ queries[2]._safedelete_force_visibility = DELETED_VISIBLE
    /\ ~queries[2]._safedelete_filter_applied
    /\ queries[2].where = <<>>
    /\ last.op = "get_compiler"
    /\ last.self = 2

----------------------------------------------------------------------------
(* C8: every deleted-marker predicate an instance holds is 'is null' when  *)
(* the instance's mode is INVISIBLE or VISIBLE_BY_FIELD and 'is not null'  *)
(* when it is ONLY_VISIBLE; and every step that adds a predicate to an     *)
(* instance happens while its effective mode is not VISIBLE, the predicate *)
(* added being 'is null' for effective mode INVISIBLE or VISIBLE_BY_FIELD  *)
(* (not triggered) and 'is not null' for ONLY_VISIBLE.                     *)
C8_EffectiveMode(q) ==
    IF q._safedelete_force_visibility = None
    THEN q._safedelete_visibility
    ELSE q._safedelete_force_visibility

C8_Polarity(mode, q_object) ==
    /\ q_object.field = FIELD_NAME
    /\ mode \in {DELETED_INVISIBLE, DELETED_VISIBLE_BY_FIELD} => q_object.isnull
    /\ mode = DELETED_ONLY_VISIBLE => ~q_object.isnull
    /\ mode # DELETED_VISIBLE

C8_PolarityInvariant ==
    /\ [](\A self \in DOMAIN queries :
             \A i \in MarkerPredicates(queries[self]) :
                 C8_Polarity(queries[self]._safedelete_visibility,
                             queries[self].where[i]))
    /\ [][\A self \in DOMAIN queries :
             queries'[self].where # queries[self].where =>
                 /\ Len(queries'[self].where) = Len(queries[self].where) + 1
                 /\ SubSeq(queries'[self].where, 1, Len(queries[self].where))
                       = queries[self].where
                 /\ C8_Polarity(C8_EffectiveMode(queries[self]),
                                queries'[self].where[Len(queries'[self].where)])]_vars

\* An untriggered VISIBLE_BY_FIELD clone that get_compiler has just given the
\* 'is null' predicate, beside a triggered original that holds none.
C8_Witness ==
    /\ last.op = "get_compiler"
    /\ last.injected
    /\ last.self > 1
    /\ queries[last.self]._safedelete_visibility = DELETED_VISIBLE_BY_FIELD
    /\ queries[last.self].where = <<[field |-> FIELD_NAME, isnull |-> TRUE]>>
    /\ queries[1]._safedelete_force_visibility = DELETED_VISIBLE
    /\ queries[1].where = <<>>

----------------------------------------------------------------------------
(* C9: in every reachable state an instance that has limits set (is no     *)
(* longer filterable) and whose effective mode is INVISIBLE, ONLY_VISIBLE  *)
(* or untriggered VISIBLE_BY_FIELD has filter_applied true and holds the   *)
(* deleted-marker predicate: set_limits filters before it slices.          *)
C9_EffectiveMode(q) ==
    IF q._safedelete_force_visibility = None
    THEN q._safedelete_visibility
    ELSE q._safedelete_force_visibility

C9_FilterBeforeLimit ==
    \A self \in DOMAIN queries :
        ( /\ queries[self].is_sliced
          /\ C9_EffectiveMode(queries[self]) \in
                {DELETED_INVISIBLE, DELETED_ONLY_VISIBLE, DELETED_VISIBLE_BY_FIELD} )
        => /\ queries[self]._safedelete_filter_applied
           /\ Cardinality(MarkerPredicates(queries[self])) = 1

\* A query in a filtering mode that set_limits filtered and sliced in one
\* call, its first.
C9_Witness ==
    /\ last.op = "set_limits"
    /\ last.injected
    /\ queries[last.self].is_sliced
    /\ C9_EffectiveMode(queries[last.self]) \in
          {DELETED_INVISIBLE, DELETED_ONLY_VISIBLE, DELETED_VISIBLE_BY_FIELD}
    /\ Cardinality(MarkerPredicates(queries[last.self])) = 1

----------------------------------------------------------------------------
----------------------------------------------------------------------------
(* C11: when the effective mode of an instance is VISIBLE, a call of       *)
(* get_compiler or set_limits on it changes nothing in its visibility      *)
(* state: the condition set gains no predicate, filter_applied keeps the   *)
(* value it had (it is not set to true), and visibility, visibility_field  *)
(* and force_visibility stay as they were.                                 *)
C11_EffectiveMode(q) ==
    IF q._safedelete_force_visibility = None
    THEN q._safedelete_visibility
    ELSE q._safedelete_force_visibility

C11_VisibleFilterChangesNothing ==
    [][\A self \in DOMAIN queries :
          (C11_EffectiveMode(queries[self]) = DELETED_VISIBLE /\ FilterCallOn(self)) =>
              /\ queries'[self].where = queries[self].where
              /\ queries'[self]._safedelete_filter_applied
                   = queries[self]._safedelete_filter_applied
              /\ queries'[self]._safedelete_visibility
                   = queries[self]._safedelete_visibility
              /\ queries'[self]._safedelete_visibility_field
                   = queries[self]._safedelete_visibility_field
              /\ queries'[self]._safedelete_force_visibility
                   = queries[self]._safedelete_force_visibility]_vars

\* A VISIBLE query that set_limits has just sliced: no predicate, and
\* filter_applied still false.
C11_Witness ==
    /\ last.op = "set_limits"
    /\ ~last.injected
    /\ queries[last.self]._safedelete_visibility = DELETED_VISIBLE
    /\ queries[last.self].is_sliced
    /\ queries[last.self].where = <<>>
    /\ ~queries[last.self]._safedelete_filter_applied

----------------------------------------------------------------------------
(* C12: when an instance is no longer filterable (limits set) or its       *)
(* filter_applied is already true, a call of get_compiler or set_limits    *)
(* injects no predicate and leaves visibility, visibility_field,           *)
(* force_visibility and filter_applied unchanged; the call still goes      *)
(* through to the host: get_compiler leaves the instance as it is, and     *)
(* set_limits still sets the limits it is given.                           *)
C12_PreconditionViolated(q) == q.is_sliced \/ q._safedelete_filter_applied

C12_SilentNoOp ==
    [][\A self \in DOMAIN queries :
          (FilterCallOn(self) /\ C12_PreconditionViolated(queries[self])) =>
              /\ last'.op = "get_compiler" => queries'[self] = queries[self]
              /\ last'.op = "set_limits" =>
                    \A limits \in LimitArgs :
                        SetLimits(self, limits[1], limits[2]) =>
                            queries'[self] =
                               [queries[self] EXCEPT !.is_sliced =
                                   \/ queries[self].is_sliced
                                   \/ limits[2] # <<>>
                                   \/ limits[1] \notin {<<>>, <<0>>}]]_vars

\* A filtered, until then unsliced query that set_limits has just sliced
\* without adding a second predicate.
C12_Witness ==
    /\ last.op = "set_limits"
    /\ ~last.injected
    /\ queries[last.self]._safedelete_filter_applied
    /\ queries[last.self].is_sliced
    /\ Cardinality(MarkerPredicates(queries[last.self])) = 1
    /\ \E other \in DOMAIN queries :
          /\ other # last.self
          /\ queries[other]._safedelete_filter_applied
          /\ ~queries[other].is_sliced

----------------------------------------------------------------------------
(* C13: the instance returned by clone() has the visibility,               *)
(* visibility_field and filter_applied of its parent at the moment of      *)
(* cloning, the parent's force_visibility whenever the parent's was set,   *)
(* and hence the parent's effective mode.                                  *)
C13_EffectiveMode(q) ==
    IF q._safedelete_force_visibility = None
    THEN q._safedelete_visibility
    ELSE q._safedelete_force_visibility

C13_CloneCopiesState ==
    [][last'.op = "clone" =>
          LET parent == queries[last'.self]
              child  == queries'[last'.new]
          IN  /\ last'.new \notin DOMAIN queries
              /\ child._safedelete_visibility = parent._safedelete_visibility
              /\ child._safedelete_visibility_field
                   = parent._safedelete_visibility_field
              /\ child._safedelete_filter_applied
                   = parent._safedelete_filter_applied
              /\ parent._safedelete_force_visibility # None =>
                   child._safedelete_force_visibility
                     = parent._safedelete_force_visibility
              /\ C13_EffectiveMode(child) = C13_EffectiveMode(parent)]_vars

\* A clone just taken from a query that was filtered and then triggered.
C13_Witness ==
    /\ last.op = "clone"
    /\ queries[last.new]._safedelete_force_visibility = DELETED_VISIBLE
    /\ queries[last.new]._safedelete_filter_applied
    /\ queries[last.self]._safedelete_force_visibility = DELETED_VISIBLE

----------------------------------------------------------------------------
(* C14: once check_field_filter has set force_visibility to VISIBLE on an  *)
(* instance, no later call (check_field_filter with or without the key,    *)
(* get_compiler, set_limits, clone) changes it on that instance; the       *)
(* effective mode of the instance stays VISIBLE, so no predicate is        *)
(* injected into it any more; and every clone taken afterwards carries     *)
(* force_visibility = VISIBLE.                                             *)
C14_TriggerIrreversible ==
    [][/\ \A self \in DOMAIN queries :
             queries[self]._safedelete_force_visibility = DELETED_VISIBLE =>
                 /\ queries'[self]._safedelete_force_visibility = DELETED_VISIBLE
                 /\ queries'[self]._safedelete_visibility
                      = queries[self]._safedelete_visibility
                 /\ queries'[self].where = queries[self].where
       /\ ( /\ last'.op = "clone"
            /\ queries[last'.self]._safedelete_force_visibility = DELETED_VISIBLE )
          => queries'[last'.new]._safedelete_force_visibility = DELETED_VISIBLE]_vars

\* A clone that carries the override of its parent and on which
\* check_field_filter has just been called without the key.
C14_Witness ==
    /\ last.op = "check_field_filter"
    /\ ~last.keyed
    /\ last.self > 1
    /\ queries[last.self]._safedelete_force_visibility = DELETED_VISIBLE
    /\ queries[1]._safedelete_force_visibility = DELETED_VISIBLE

----------------------------------------------------------------------------
(* C15: check_field_filter sets force_visibility to VISIBLE exactly when   *)
(* the instance's visibility is VISIBLE_BY_FIELD and its visibility_field  *)
(* is a key of kwargs; in every other case it changes nothing; and in all  *)
(* cases it leaves visibility, visibility_field, filter_applied and the    *)
(* condition set (and the limits) as they are.                             *)
C15_CheckFieldFilterEffect ==
    [][\A self \in DOMAIN queries :
          (last'.op = "check_field_filter" /\ last'.self = self) =>
              /\ queries'[self]._safedelete_force_visibility =
                   IF /\ queries[self]._safedelete_visibility = DELETED_VISIBLE_BY_FIELD
                      /\ last'.keyed
                   THEN DELETED_VISIBLE
                   ELSE queries[self]._safedelete_force_visibility
              /\ queries'[self] =
                   [queries[self] EXCEPT !._safedelete_force_visibility =
                       queries'[self]._safedelete_force_visibility]]_vars

\* An already filtered VISIBLE_BY_FIELD query that check_field_filter has just
\* triggered: the override is set, the predicate and filter_applied remain.
C15_Witness ==
    /\ last.op = "check_field_filter"
    /\ last.keyed
    /\ queries[last.self]._safedelete_visibility = DELETED_VISIBLE_BY_FIELD
    /\ queries[last.self]._safedelete_force_visibility = DELETED_VISIBLE
    /\ queries[last.self]._safedelete_filter_applied
    /\ queries[last.self].where = <<[field |-> FIELD_NAME, isnull |-> TRUE]>>

----------------------------------------------------------------------------
(* C16: in every reachable state and for every instance, original or       *)
(* clone, filter_applied is true if and only if the instance's condition   *)
(* set holds exactly one deleted-marker predicate (the host's clone copies *)
(* the condition set; nothing else edits it).                              *)
C16_FlagAgreesWithPredicate ==
    \A self \in DOMAIN queries :
        queries[self]._safedelete_filter_applied
          <=> Cardinality(MarkerPredicates(queries[self])) = 1

\* An unfiltered original beside a clone of it that was compiled.
C16_Witness ==
    /\ Cardinality(DOMAIN queries) >= 2
    /\ ~queries[1]._safedelete_filter_applied
    /\ queries[1].where = <<>>
    /\ queries[2]._safedelete_filter_applied
    /\ Cardinality(MarkerPredicates(queries[2])) = 1
    /\ last.op \in FilterCalls
    /\ last.self = 2

====
